---- MODULE Spec2Model ----
(***************************************************************************)
(* State-machine model of the transit-hub browser client.                  *)
(*                                                                         *)
(*   App (frontend/src/App.jsx, second revision, lines 90-326):            *)
(*     status polling effect, accessibility effect, auth-state effect.     *)
(*   FavoriteRoutesManager (src/unnamed/part_001) and                      *)
(*   FavoriteStationsManager (components/FavoriteStationsManager.jsx).     *)
(*                                                                         *)
(* A React state slot is a variable; a call of its setter is an            *)
(* assignment.  An async function is cut at its awaits: the synchronous    *)
(* run up to an await, or from the settling of an awaited promise to the   *)
(* next await or the end, is one atomic step of the single event loop.     *)
(***************************************************************************)
EXTENDS Integers, Sequences, FiniteSets, TLC

\* ------------------------------------------------------------------ bounds
\* Number of interval firings of the status poll that the model explores.
MaxTicks == 2

\* ------------------------------------------------------------ program data
\* setInterval(fetchSubwayStatus, 60000)
PollMs == 60000

\* null in a slot that otherwise holds a string (error messages, user ids).
NULL == "null"
\* null in a slot that otherwise holds a parsed JSON payload.
NoData == [absent |-> TRUE]

\* Feed payloads the status endpoint can answer with.  All fields of one
\* payload carry the same version number, so a snapshot mixing the fields
\* of two responses is not a member of StatusPayloads.
StatusPayloads ==
  { [feed_id_requested |-> "1", feed_timestamp |-> v, trip_updates |-> v, alerts |-> v] :
      v \in {1, 2} }

\* Payloads of the accessibility endpoint (opaque to the client).
AccessPayloads == { [outages |-> v] : v \in {1, 2} }

\* What `await fetch(url)` can resolve to, as far as the client reads it:
\* response.ok, and whether response.json() parses and to what.
HttpResponses(payloads) ==
  { [ok |-> TRUE, parseable |-> TRUE, data |-> p] : p \in payloads }
    \cup { [ok |-> TRUE, parseable |-> FALSE, data |-> NoData],
           [ok |-> FALSE, parseable |-> FALSE, data |-> NoData] }

\* No response object held (before fetch resolves, after the call ended).
NoResponse == [none |-> TRUE]

\* err.message of the errors the fetch paths can catch.
MsgNetwork == "Failed to fetch"
MsgHttp == "HTTP error! status: 500"
MsgParse == "Unexpected token < in JSON"
MsgBody == "body stream error"
StatusMessages == {MsgNetwork, MsgHttp, MsgParse, MsgBody}

\* Identities the provider can report.
Users == {"uA", "uB"}

\* Status requests are numbered by the timer event that dispatched them:
\* 0 is the call on mount, n >= 1 the n-th firing of the interval.
ReqIds == 0 .. MaxTicks

VARIABLES
  \* ---- App
  appPhase,          \* "init" (constructed, effects not yet run), "mounted", "unmounted"
  subwayStatus,      \* useState(null)
  isStatusLoading,   \* useState(true)
  statusError,       \* useState(null)
  intervalActive,    \* the interval of setInterval is registered
  ticks,             \* number of interval firings so far
  clock,             \* time of the latest timer event, ms since mount
  statusPc,          \* per status request: "idle", "fetch", "text", "json", "done"
  statusResp,        \* per status request: the response object it holds
  statusAt,          \* per status request: clock value when it was dispatched (-1: never)
  statusLast,        \* history: id of the request whose result was committed last (-1: none)
  accessData,        \* useState(null)
  isAccessLoading,   \* useState(true)
  accessError,       \* useState(null)
  accessPc,          \* the one accessibility request: "idle", "fetch", "text", "json", "done"
  accessResp,        \* the response object it holds
  accessCalls,       \* history: number of calls of fetchAccessData
  currentUser,       \* useState(null)
  authLoading,       \* useState(true)
  authListeners,     \* number of listeners registered with onAuthStateChanged
  authLast,          \* history: the user of the provider's latest callback (NoCallback: none yet)
  \* ---- one FavoriteRoutesManager or FavoriteStationsManager
  kind,              \* which of the two components this instance is
  favMounted,        \* the component instance is mounted
  favUser,           \* prop currentUser
  favorites,         \* useState([]): favoriteRoutes / favoriteStations
  newFavorite,       \* useState(''): newFavoriteRoute / newFavoriteStation
  favLoading,        \* useState(false): isLoading
  favError,          \* useState(null): error
  addError,          \* useState(null)
  removeError,       \* useState(null)
  calls,             \* the calls of the async functions, in order of invocation
  added,             \* history: the id sent and the id answered of each add that succeeded, in order
  nCalls,            \* number of calls made so far
  \* ---- MapDisplay
  tripUpdates,       \* prop tripUpdates, as the parent passed it
  markers            \* per revision of MapDisplay: the <Marker> elements of the last render

statusVars == <<subwayStatus, isStatusLoading, statusError, intervalActive, ticks, clock,
                statusPc, statusResp, statusAt, statusLast>>
accessVars == <<accessData, isAccessLoading, accessError, accessPc, accessResp, accessCalls>>
authVars == <<currentUser, authLoading, authListeners, authLast>>
appVars == <<appPhase, statusVars, accessVars, authVars>>

favVars == <<kind, favMounted, favUser, favorites, newFavorite, favLoading, favError,
             addError, removeError, calls, nCalls, added>>

mapVars == <<tripUpdates, markers>>

vars == <<appVars, favVars, mapVars>>

\* ===================================================================== App

\* The provider has not called the listener yet.
NoCallback == "none"

\* useState initial values, App.jsx:93-102.
AppInit ==
  /\ appPhase = "init"
  /\ subwayStatus = NoData
  /\ isStatusLoading = TRUE
  /\ statusError = NULL
  /\ intervalActive = FALSE
  /\ ticks = 0
  /\ clock = 0
  /\ statusPc = [n \in ReqIds |-> "idle"]
  /\ statusResp = [n \in ReqIds |-> NoResponse]
  /\ statusAt = [n \in ReqIds |-> -1]
  /\ statusLast = -1
  /\ accessData = NoData
  /\ isAccessLoading = TRUE
  /\ accessError = NULL
  /\ accessPc = "idle"
  /\ accessResp = NoResponse
  /\ accessCalls = 0
  /\ currentUser = NULL
  /\ authLoading = TRUE
  /\ authListeners = 0
  /\ authLast = NoCallback

\* ------------------------------------------------------------ StatusPoller

\* fetchSubwayStatus as it would be if it cleared the error at dispatch, as
\* fetchAccessData does.
fetchSubwayStatusClearsError(n) ==
  /\ isStatusLoading' = TRUE
  /\ statusError' = NULL
  /\ statusPc' = [statusPc EXCEPT ![n] = "fetch"]
  /\ statusAt' = [statusAt EXCEPT ![n] = clock']
  /\ UNCHANGED <<subwayStatus, statusResp, statusLast>>

\* fetchSubwayStatus up to its first await (App.jsx:108-113): request n is
\* dispatched at the current clock value.
fetchSubwayStatus(n) ==
  /\ isStatusLoading' = TRUE
  /\ statusPc' = [statusPc EXCEPT ![n] = "fetch"]
  /\ statusAt' = [statusAt EXCEPT ![n] = clock']
  /\ UNCHANGED <<subwayStatus, statusError, statusResp, statusLast>>

\* The status polling effect, App.jsx:107-131: fetch immediately, then
\* register the interval.
StatusEffect ==
  /\ clock' = 0
  /\ fetchSubwayStatus(0)
  /\ intervalActive' = TRUE
  /\ UNCHANGED ticks

\* StatusTick as it would be if a tick were skipped while a request is pending.
StatusTickNoOverlap ==
  /\ intervalActive
  /\ ticks < MaxTicks
  /\ \A n \in ReqIds : statusPc[n] \in {"idle", "done"}
  /\ ticks' = ticks + 1
  /\ clock' = clock + PollMs
  /\ fetchSubwayStatus(ticks + 1)
  /\ UNCHANGED <<intervalActive, appPhase, accessVars, authVars, favVars, mapVars>>

\* The interval fires (App.jsx:131): 60 s after the previous timer event.
StatusTick ==
  /\ intervalActive
  /\ ticks < MaxTicks
  /\ ticks' = ticks + 1
  /\ clock' = clock + PollMs
  /\ fetchSubwayStatus(ticks + 1)
  /\ UNCHANGED <<intervalActive, appPhase, accessVars, authVars, favVars, mapVars>>

\* StatusCatch as it would be if a failure cleared the snapshot.
StatusCatchClearing(n, msg) ==
  /\ statusError' = msg
  /\ subwayStatus' = NoData
  /\ isStatusLoading' = FALSE
  /\ statusPc' = [statusPc EXCEPT ![n] = "done"]
  /\ statusResp' = [statusResp EXCEPT ![n] = NoResponse]
  /\ statusLast' = n

\* StatusCatch as it would be without the finally block.
StatusCatchNoFinally(n, msg) ==
  /\ statusError' = msg
  /\ statusPc' = [statusPc EXCEPT ![n] = "done"]
  /\ statusResp' = [statusResp EXCEPT ![n] = NoResponse]
  /\ statusLast' = n
  /\ UNCHANGED <<subwayStatus, isStatusLoading>>

\* catch + finally of fetchSubwayStatus, App.jsx:121-126.
StatusCatch(n, msg) ==
  /\ statusError' = msg
  /\ isStatusLoading' = FALSE
  /\ statusPc' = [statusPc EXCEPT ![n] = "done"]
  /\ statusResp' = [statusResp EXCEPT ![n] = NoResponse]
  /\ statusLast' = n
  /\ UNCHANGED subwayStatus

\* `await fetch(...)` rejects (App.jsx:113): network failure.
StatusFetchReject(n) ==
  /\ statusPc[n] = "fetch"
  /\ StatusCatch(n, MsgNetwork)
  /\ UNCHANGED <<statusAt, intervalActive, ticks, clock, appPhase, accessVars, authVars, favVars, mapVars>>

\* `await fetch(...)` resolves with a response (App.jsx:113-118): the
\* function goes on to await response.text() or response.json().
StatusFetchResolve(n, r) ==
  /\ statusPc[n] = "fetch"
  /\ statusPc' = [statusPc EXCEPT ![n] = IF r.ok THEN "json" ELSE "text"]
  /\ statusResp' = [statusResp EXCEPT ![n] = r]
  /\ UNCHANGED <<subwayStatus, isStatusLoading, statusError, statusAt, statusLast,
                 intervalActive, ticks, clock, appPhase, accessVars, authVars, favVars, mapVars>>

\* `await response.text()` settles (App.jsx:115-116): either way an error
\* is thrown and caught.
StatusTextSettle(n, resolved) ==
  /\ statusPc[n] = "text"
  /\ StatusCatch(n, IF resolved THEN MsgHttp ELSE MsgBody)
  /\ UNCHANGED <<statusAt, intervalActive, ticks, clock, appPhase, accessVars, authVars, favVars, mapVars>>

\* StatusCommit as it would be if the payload were merged into the stored
\* snapshot field by field, keeping the newer feed_timestamp.
StatusCommitMerged(n) ==
  /\ subwayStatus' =
       IF subwayStatus = NoData THEN statusResp[n].data
       ELSE [statusResp[n].data EXCEPT
               !.feed_timestamp = IF subwayStatus.feed_timestamp > @
                                    THEN subwayStatus.feed_timestamp ELSE @]
  /\ statusError' = NULL
  /\ isStatusLoading' = FALSE
  /\ statusPc' = [statusPc EXCEPT ![n] = "done"]
  /\ statusResp' = [statusResp EXCEPT ![n] = NoResponse]
  /\ statusLast' = n

\* `await response.json()` resolves (App.jsx:118-120, 125).
StatusCommit(n) ==
  /\ subwayStatus' = statusResp[n].data
  /\ statusError' = NULL
  /\ isStatusLoading' = FALSE
  /\ statusPc' = [statusPc EXCEPT ![n] = "done"]
  /\ statusResp' = [statusResp EXCEPT ![n] = NoResponse]
  /\ statusLast' = n

StatusJsonSettle(n) ==
  /\ statusPc[n] = "json"
  /\ IF statusResp[n].parseable
       THEN StatusCommit(n)
       ELSE StatusCatch(n, MsgParse)
  /\ UNCHANGED <<statusAt, intervalActive, ticks, clock, appPhase, accessVars, authVars, favVars, mapVars>>

\* StatusCleanup as it would be without clearInterval.
StatusCleanupForgets ==
  /\ UNCHANGED <<intervalActive, subwayStatus, isStatusLoading, statusError, ticks, clock,
                 statusPc, statusResp, statusAt, statusLast>>

\* Cleanup of the status polling effect, App.jsx:133-136.
StatusCleanup ==
  /\ intervalActive' = FALSE
  /\ UNCHANGED <<subwayStatus, isStatusLoading, statusError, ticks, clock,
                 statusPc, statusResp, statusAt, statusLast>>

\* ----------------------------------------------------------- OutageFetcher

\* catch + finally of fetchAccessData, App.jsx:155-160.
\* AccessCatch as it would be if a failure started the request again.
AccessCatchRetries(msg) ==
  /\ accessError' = msg
  /\ isAccessLoading' = TRUE
  /\ accessPc' = "fetch"
  /\ accessResp' = NoResponse
  /\ accessCalls' = accessCalls + 1
  /\ UNCHANGED accessData

\* AccessCatch as it would be without the finally block.
AccessCatchNoFinally(msg) ==
  /\ accessError' = msg
  /\ accessPc' = "done"
  /\ accessResp' = NoResponse
  /\ UNCHANGED <<accessData, isAccessLoading, accessCalls>>

AccessCatch(msg) ==
  /\ accessError' = msg
  /\ isAccessLoading' = FALSE
  /\ accessPc' = "done"
  /\ accessResp' = NoResponse
  /\ UNCHANGED <<accessData, accessCalls>>

\* The accessibility effect, App.jsx:140-164: fetchAccessData up to its
\* first await; no interval.
AccessEffect ==
  /\ isAccessLoading' = TRUE
  /\ accessError' = NULL
  /\ accessPc' = "fetch"
  /\ accessCalls' = accessCalls + 1
  /\ UNCHANGED <<accessData, accessResp>>

\* AccessFetchReject as it would be with one error slot for the two
\* requests of App.
AccessFetchRejectSharedError ==
  /\ accessPc = "fetch"
  /\ AccessCatch(MsgNetwork)
  /\ statusError' = MsgNetwork
  /\ UNCHANGED <<subwayStatus, isStatusLoading, statusPc, statusResp, statusAt, statusLast,
                 intervalActive, ticks, clock, appPhase, authVars, favVars, mapVars>>

AccessFetchReject ==
  /\ accessPc = "fetch"
  /\ AccessCatch(MsgNetwork)
  /\ UNCHANGED <<appPhase, statusVars, authVars, favVars, mapVars>>

AccessFetchResolve(r) ==
  /\ accessPc = "fetch"
  /\ accessPc' = IF r.ok THEN "json" ELSE "text"
  /\ accessResp' = r
  /\ UNCHANGED <<accessData, isAccessLoading, accessError, accessCalls,
                 appPhase, statusVars, authVars, favVars, mapVars>>

AccessTextSettle(resolved) ==
  /\ accessPc = "text"
  /\ AccessCatch(IF resolved THEN MsgHttp ELSE MsgBody)
  /\ UNCHANGED <<appPhase, statusVars, authVars, favVars, mapVars>>

AccessJsonSettle ==
  /\ accessPc = "json"
  /\ IF accessResp.parseable
       THEN /\ accessData' = accessResp.data
            /\ isAccessLoading' = FALSE
            /\ accessPc' = "done"
            /\ accessResp' = NoResponse
            /\ UNCHANGED <<accessError, accessCalls>>
       ELSE AccessCatch(MsgParse)
  /\ UNCHANGED <<appPhase, statusVars, authVars, favVars, mapVars>>

\* ---------------------------------------------------------- SessionWatcher

\* The auth-state effect, App.jsx:168-175: register the listener.
AuthEffect ==
  /\ authListeners' = authListeners + 1
  /\ UNCHANGED <<currentUser, authLoading, authLast>>

\* AuthCallback as it would be if the listener stored signed-in users only.
AuthCallbackSkipsNull(user) ==
  /\ authListeners > 0
  /\ currentUser' = IF user = NULL THEN currentUser ELSE user
  /\ authLoading' = FALSE
  /\ authLast' = user
  /\ UNCHANGED <<authListeners, appPhase, statusVars, accessVars, favVars, mapVars>>

\* The provider calls the listener (App.jsx:171-175).
AuthCallback(user) ==
  /\ authListeners > 0
  /\ currentUser' = user
  /\ authLoading' = FALSE
  /\ authLast' = user
  /\ UNCHANGED <<authListeners, appPhase, statusVars, accessVars, favVars, mapVars>>

\* AuthCleanup as it would be if the cleanup did not call unsubscribe.
AuthCleanupKeepsListener ==
  /\ UNCHANGED <<authListeners, currentUser, authLoading, authLast>>

\* Cleanup of the auth-state effect, App.jsx:177-180.
AuthCleanup ==
  /\ authListeners' = authListeners - 1
  /\ UNCHANGED <<currentUser, authLoading, authLast>>

\* ---------------------------------------------------------- mount, unmount

\* React runs the three effects of App, in order, after the first render.
AppMount ==
  /\ appPhase = "init"
  /\ appPhase' = "mounted"
  /\ StatusEffect
  /\ AccessEffect
  /\ AuthEffect
  /\ UNCHANGED <<favVars, mapVars>>

\* React runs the cleanups of the effects when App is removed.
\* The cleanups abort no request: a pending call of fetchSubwayStatus or
\* fetchAccessData still runs to its end and calls its setters.
AppUnmount ==
  /\ appPhase = "mounted"
  /\ appPhase' = "unmounted"
  /\ StatusCleanup
  /\ UNCHANGED accessVars
  /\ AuthCleanup
  /\ UNCHANGED <<favVars, mapVars>>

\* ======================================================= FavoritesStore<T>

\* The two instantiations.
Kinds == {"routes", "stations"}

\* Strings the code inspects are sequences of characters.
SP == " "

\* UTF-16 code units of the characters in use (String.prototype order).
Code(c) ==
  CASE c = " " -> 32
    [] c = "1" -> 49
    [] c = "A" -> 65
    [] c = "L" -> 76
    [] c = "a" -> 97
    [] c = "l" -> 108

\* String.prototype.toUpperCase on one character.
UpperChar(c) ==
  CASE c = "a" -> "A"
    [] c = "l" -> "L"
    [] OTHER -> c

ToUpperCase(s) == [i \in 1 .. Len(s) |-> UpperChar(s[i])]

RECURSIVE TrimStart(_)
TrimStart(s) ==
  IF s # <<>> /\ Head(s) = SP THEN TrimStart(Tail(s)) ELSE s

RECURSIVE TrimEnd(_)
TrimEnd(s) ==
  IF s # <<>> /\ s[Len(s)] = SP THEN TrimEnd(SubSeq(s, 1, Len(s) - 1)) ELSE s

\* String.prototype.trim
Trim(s) == TrimEnd(TrimStart(s))

\* Normalize as it would be if both components upper-cased the input.
NormalizeUpperAlways(k, text) == ToUpperCase(Trim(text))

\* part_001:74 newFavoriteRoute.trim().toUpperCase();
\* FavoriteStationsManager.jsx:66 newFavoriteStation.trim()
Normalize(k, text) ==
  IF k = "routes" THEN ToUpperCase(Trim(text)) ELSE Trim(text)

\* a < b in the order of Array.prototype.sort() without comparator:
\* by UTF-16 code units, a proper prefix first.
RECURSIVE StrLess(_, _)
StrLess(a, b) ==
  IF b = <<>> THEN FALSE
  ELSE IF a = <<>> THEN TRUE
  ELSE IF Code(Head(a)) # Code(Head(b)) THEN Code(Head(a)) < Code(Head(b))
  ELSE StrLess(Tail(a), Tail(b))

\* Array.prototype.sort()
Sort(list) == SortSeq(list, StrLess)

\* Array.prototype.includes
Includes(list, x) == \E i \in 1 .. Len(list) : list[i] = x

\* Array.prototype.filter(e => e !== x)
RECURSIVE FilterOut(_, _)
FilterOut(list, x) ==
  IF list = <<>> THEN <<>>
  ELSE IF Head(list) = x THEN FilterOut(Tail(list), x)
  ELSE <<Head(list)>> \o FilterOut(Tail(list), x)

\* Texts the user can have in the input field.
Texts == { <<" ", "l", " ">>, <<"a", "1">> }

\* Ids the server can name in its answers.
ServerIds == { <<"L">>, <<"A", "1">>, <<"a", "1">> }

\* Arrays the list endpoint can answer with.
ListBodies == { <<>>, << <<"a", "1">>, <<"L">> >>, << <<"A", "1">> >> }

\* Number of calls of the async functions (fetchFavorites, handleAddFavorite
\* past its local checks, handleRemoveFavorite) that the model explores.
MaxCalls == 3
\* Number of those calls that are in flight at once.
MaxInFlight == 2

CallIds == 1 .. MaxCalls

\* err.message of a rejected getIdToken (the provider's text, possibly empty).
TokenMessages == {"", "auth/user-token-expired"}
\* data.message / errorData.message of an error body, when present.
MsgServer == "message from server"
\* `HTTP error ${response.status}`
MsgHttpStatus == "HTTP error"
MsgDuplicate == "is already a favorite."
MsgConflict == "already favorited."
\* The fallback texts of the three catch blocks.
DefaultMsg(op) ==
  CASE op = "list" -> "Failed to load favorites."
    [] op = "add" -> "Failed to add favorite."
    [] op = "remove" -> "Failed to remove favorite."

\* a || b on strings and null/undefined.
OrElse(a, b) == IF a = NULL \/ a = "" THEN b ELSE a

\* HTTP statuses the favorites endpoints answer with.
Statuses == {200, 409, 500}
IsOk(status) == status >= 200 /\ status <= 299

\* A response body as response.json() delivers it: whether it parses, its
\* message field, and its favorite_routes / favorite.route_id field.
Body(parseable, message, isArray, list, id) ==
  [parseable |-> parseable, message |-> message, isArray |-> isArray, list |-> list, id |-> id]
Unparseable == Body(FALSE, NULL, FALSE, <<>>, <<>>)
ErrorBodies == {Unparseable} \cup { Body(TRUE, m, FALSE, <<>>, <<>>) : m \in {NULL, MsgServer} }
ListOkBodies ==
  {Unparseable, Body(TRUE, NULL, FALSE, <<>>, <<>>)}
    \cup { Body(TRUE, NULL, TRUE, l, <<>>) : l \in ListBodies }
\* A 2xx answer to the POST: not JSON, JSON without a `favorite` field, or
\* JSON naming the favorite.
AddOkBodies ==
  {Unparseable, Body(TRUE, NULL, FALSE, <<>>, <<>>)}
    \cup { Body(TRUE, NULL, FALSE, <<>>, id) : id \in ServerIds }
\* data.favorite is there.
HasFavorite(body) == body.id # <<>>

\* Bodies that can arrive for call record c, which is awaiting one.
BodiesFor(c) ==
  IF c.pc = "errjson" THEN ErrorBodies
  ELSE IF c.op = "list" THEN ListOkBodies
  ELSE IF IsOk(c.status) THEN AddOkBodies
  ELSE ErrorBodies

\* The token that the getIdToken call of the i-th call resolves with. A
\* token is identified by the retrieval that produced it.
TokenOf(i) == i
\* The local `token` of a call before its getIdToken has resolved.
NoToken == 0

\* One call of an async function: the function, its position, and what its
\* closure and locals hold.
NewCall(op, user, arg) ==
  [op |-> op, pc |-> "token", user |-> user, arg |-> arg, status |-> 0, token |-> NoToken]
NoCall ==
  [op |-> "none", pc |-> "idle", user |-> NULL, arg |-> <<>>, status |-> 0, token |-> NoToken]
\* The call has returned; what is kept is how it ended: "ok" (the success
\* branch), "conflict" (the 409 branch), "error" (the catch block) or
\* "thrown" (it left behind an exception that no catch block of it sees).
Ended(c, outcome) == [NoCall EXCEPT !.op = c.op, !.pc = outcome]
Awaiting == {"token", "http", "json", "errjson"}
InFlight == { i \in CallIds : calls[i].pc \in Awaiting }
\* The model can follow one more call.
CanCall == nCalls < MaxCalls /\ Cardinality(InFlight) < MaxInFlight

\* useState initial values, part_001:6-11, FavoriteStationsManager.jsx:6-11.
\* The instance is one of the two components and starts mounted with the
\* default prop currentUser: null.
FavInit ==
  /\ kind \in Kinds
  /\ favMounted = TRUE
  /\ favUser = NULL
  /\ favorites = <<>>
  /\ newFavorite = <<>>
  /\ favLoading = FALSE
  /\ favError = NULL
  /\ addError = NULL
  /\ removeError = NULL
  /\ calls = [i \in CallIds |-> NoCall]
  /\ nCalls = 0
  /\ added = <<>>

\* fetchFavorites up to its first await, part_001:14-23 (user is non-null:
\* the effect calls it only then).
fetchFavorites(user) ==
  /\ favLoading' = TRUE
  /\ favError' = NULL
  /\ removeError' = NULL
  /\ calls' = [calls EXCEPT ![nCalls + 1] = NewCall("list", user, <<>>)]
  /\ nCalls' = nCalls + 1
  /\ UNCHANGED <<favorites, addError>>

\* ClearOnLogout as it would be if the effect only reset the flags and kept
\* the list.
ClearOnLogoutKeepsList ==
  /\ favError' = NULL
  /\ favLoading' = FALSE
  /\ UNCHANGED <<favorites, removeError, addError, calls, nCalls>>

\* The else branch of the session effect, part_001:59-64.
ClearOnLogout ==
  /\ favorites' = <<>>
  /\ favError' = NULL
  /\ favLoading' = FALSE
  /\ UNCHANGED <<removeError, addError, calls, nCalls>>

\* The parent renders the component with another currentUser; the session
\* effect runs, part_001:56-65.
FavSetUser(user) ==
  /\ favMounted
  /\ user # favUser
  /\ user # NULL => CanCall
  /\ favUser' = user
  /\ IF user # NULL THEN fetchFavorites(user) ELSE ClearOnLogout
  /\ UNCHANGED <<kind, added, favMounted, newFavorite, appVars, mapVars>>

\* onChange of the input field, part_001:201.
ChangeInput(text) ==
  /\ favMounted
  /\ newFavorite # text
  /\ newFavorite' = text
  /\ UNCHANGED <<kind, added, favMounted, favUser, favorites, favLoading, favError, addError,
                 removeError, calls, nCalls, appVars, mapVars>>

\* The local duplicate check, part_001:77-80.
AddDuplicate(id) ==
  /\ addError' = MsgDuplicate
  /\ UNCHANGED <<calls, nCalls>>

\* handleAddFavorite goes on to its first await, part_001:82-83.
AddRequest(id) ==
  /\ CanCall
  /\ addError' = NULL
  /\ calls' = [calls EXCEPT ![nCalls + 1] = NewCall("add", favUser, id)]
  /\ nCalls' = nCalls + 1

\* HandleAdd as it would be without the local duplicate check.
HandleAddNoDupCheck ==
  /\ favMounted
  /\ favUser # NULL
  /\ Trim(newFavorite) # <<>>
  /\ removeError' = NULL
  /\ AddRequest(Normalize(kind, newFavorite))
  /\ UNCHANGED <<kind, added, favMounted, favUser, favorites, newFavorite, favLoading, favError,
                 appVars, mapVars>>

\* handleAddFavorite up to its first await or return, part_001:68-83.
HandleAdd ==
  /\ favMounted
  /\ favUser # NULL
  /\ Trim(newFavorite) # <<>>
  /\ removeError' = NULL
  /\ LET id == Normalize(kind, newFavorite) IN
       IF Includes(favorites, id) THEN AddDuplicate(id) ELSE AddRequest(id)
  /\ UNCHANGED <<kind, added, favMounted, favUser, favorites, newFavorite, favLoading, favError,
                 appVars, mapVars>>

\* handleAddFavorite returns at once, part_001:70.
HandleAddIgnored ==
  /\ favMounted
  /\ favUser = NULL \/ Trim(newFavorite) = <<>>
  /\ UNCHANGED vars

\* The Remove button of a listed id is shown, part_001:170-184.
RemoveShown(id) ==
  /\ favMounted
  /\ ~favLoading
  /\ favError = NULL
  /\ Includes(favorites, id)

\* HandleRemove as it would be with an optimistic local removal.
HandleRemoveOptimistic(id) ==
  /\ RemoveShown(id)
  /\ favUser # NULL
  /\ CanCall
  /\ removeError' = NULL
  /\ addError' = NULL
  /\ favorites' = FilterOut(favorites, id)
  /\ calls' = [calls EXCEPT ![nCalls + 1] = NewCall("remove", favUser, id)]
  /\ nCalls' = nCalls + 1
  /\ UNCHANGED <<kind, added, favMounted, favUser, newFavorite, favLoading, favError, appVars, mapVars>>

\* handleRemoveFavorite up to its first await, part_001:117-125.
HandleRemove(id) ==
  /\ RemoveShown(id)
  /\ favUser # NULL
  /\ CanCall
  /\ removeError' = NULL
  /\ addError' = NULL
  /\ calls' = [calls EXCEPT ![nCalls + 1] = NewCall("remove", favUser, id)]
  /\ nCalls' = nCalls + 1
  /\ UNCHANGED <<kind, added, favMounted, favUser, favorites, newFavorite, favLoading, favError,
                 appVars, mapVars>>

\* handleRemoveFavorite returns at once, part_001:118.
HandleRemoveIgnored(id) ==
  /\ RemoveShown(id)
  /\ favUser = NULL
  /\ UNCHANGED vars

\* FavCatch as it would be if a failed list-fetch emptied the collection.
FavCatchEmptiesList(i, msg) ==
  LET c == calls[i]
      m == OrElse(msg, DefaultMsg(c.op))
  IN /\ favError' = IF c.op = "list" THEN m ELSE favError
     /\ favLoading' = IF c.op = "list" THEN FALSE ELSE favLoading
     /\ addError' = IF c.op = "add" THEN m ELSE addError
     /\ removeError' = IF c.op = "remove" THEN m ELSE removeError
     /\ calls' = [calls EXCEPT ![i] = Ended(c, "error")]
     /\ favorites' = IF c.op = "list" THEN <<>> ELSE favorites
     /\ UNCHANGED newFavorite

\* FavCatch as it would be if the catch block started the function again.
FavCatchRetries(i, msg) ==
  LET c == calls[i]
      m == OrElse(msg, DefaultMsg(c.op))
  IN /\ favError' = IF c.op = "list" THEN m ELSE favError
     /\ favLoading' = IF c.op = "list" THEN TRUE ELSE favLoading
     /\ addError' = IF c.op = "add" THEN m ELSE addError
     /\ removeError' = IF c.op = "remove" THEN m ELSE removeError
     /\ calls' = [calls EXCEPT ![i].pc = "token", ![i].status = 0, ![i].token = NoToken]
     /\ UNCHANGED <<favorites, newFavorite>>

\* FavCatch as it would be with one error slot shared by the three functions.
FavCatchSharedSlot(i, msg) ==
  LET c == calls[i]
      m == OrElse(msg, DefaultMsg(c.op))
  IN /\ favError' = m
     /\ favLoading' = IF c.op = "list" THEN FALSE ELSE favLoading
     /\ addError' = IF c.op = "add" THEN m ELSE addError
     /\ removeError' = IF c.op = "remove" THEN m ELSE removeError
     /\ calls' = [calls EXCEPT ![i] = Ended(c, "error")]
     /\ UNCHANGED <<favorites, newFavorite>>

\* FavCatch as it would be storing err.message without the fallback text.
FavCatchNoFallback(i, msg) ==
  LET c == calls[i]
  IN /\ favError' = IF c.op = "list" THEN msg ELSE favError
     /\ favLoading' = IF c.op = "list" THEN FALSE ELSE favLoading
     /\ addError' = IF c.op = "add" THEN msg ELSE addError
     /\ removeError' = IF c.op = "remove" THEN msg ELSE removeError
     /\ calls' = [calls EXCEPT ![i] = Ended(c, "error")]
     /\ UNCHANGED <<favorites, newFavorite>>

\* The catch (and finally) block of call i with the caught err.message:
\* part_001:47-52, 110-113, 148-151.
FavCatch(i, msg) ==
  LET c == calls[i]
      m == OrElse(msg, DefaultMsg(c.op))
  IN /\ favError' = IF c.op = "list" THEN m ELSE favError
     /\ favLoading' = IF c.op = "list" THEN FALSE ELSE favLoading
     /\ addError' = IF c.op = "add" THEN m ELSE addError
     /\ removeError' = IF c.op = "remove" THEN m ELSE removeError
     /\ calls' = [calls EXCEPT ![i] = Ended(c, "error")]
     /\ UNCHANGED <<favorites, newFavorite>>

\* TokenReject as it would be if the catch block stored err.message as it
\* is, without the fallback text.
TokenRejectRawMessage(i, msg) ==
  /\ calls[i].pc = "token"
  /\ favError' = IF calls[i].op = "list" THEN msg ELSE favError
  /\ favLoading' = IF calls[i].op = "list" THEN FALSE ELSE favLoading
  /\ addError' = IF calls[i].op = "add" THEN msg ELSE addError
  /\ removeError' = IF calls[i].op = "remove" THEN msg ELSE removeError
  /\ calls' = [calls EXCEPT ![i] = Ended(calls[i], "error")]
  /\ UNCHANGED <<favorites, newFavorite, kind, added, favMounted, favUser, nCalls, appVars, mapVars>>

\* `await getIdToken(currentUser)` rejects, part_001:23, 83, 125.
TokenReject(i, msg) ==
  /\ calls[i].pc = "token"
  /\ FavCatch(i, msg)
  /\ UNCHANGED <<kind, added, favMounted, favUser, nCalls, appVars, mapVars>>

\* TokenResolve as it would be with a token kept for reuse: the request
\* goes out with the token another pending call holds, if there is one.
TokenResolveCached(i) ==
  /\ calls[i].pc = "token"
  /\ LET held == { calls[j].token : j \in CallIds } \ {NoToken}
     IN calls' = [calls EXCEPT ![i].pc = "http",
                               ![i].token = IF held = {} THEN TokenOf(i)
                                            ELSE CHOOSE t \in held : TRUE]
  /\ UNCHANGED <<kind, added, favMounted, favUser, favorites, newFavorite, favLoading, favError,
                 addError, removeError, nCalls, appVars, mapVars>>

\* `await getIdToken(currentUser)` resolves and fetch is called,
\* part_001:23-24, 83-84, 125-126.
TokenResolve(i) ==
  /\ calls[i].pc = "token"
  /\ calls' = [calls EXCEPT ![i].pc = "http", ![i].token = TokenOf(i)]
  /\ UNCHANGED <<kind, added, favMounted, favUser, favorites, newFavorite, favLoading, favError,
                 addError, removeError, nCalls, appVars, mapVars>>

\* `await fetch(...)` rejects, part_001:24, 84, 126.
HttpReject(i) ==
  /\ calls[i].pc = "http"
  /\ FavCatch(i, MsgNetwork)
  /\ UNCHANGED <<kind, added, favMounted, favUser, nCalls, appVars, mapVars>>

\* RemoveCommit as it would be with the filter's test inverted (=== for
\* !==): the removed id is what stays.
RemoveCommitInverted(i) ==
  /\ favorites' = SelectSeq(favorites, LAMBDA e : e = calls[i].arg)
  /\ calls' = [calls EXCEPT ![i] = Ended(calls[i], "ok")]
  /\ UNCHANGED <<newFavorite, favLoading, favError, addError, removeError>>

\* RemoveCommit as it would be with splice(indexOf(id), 1): for an id that is
\* not in the array indexOf gives -1 and splice takes the last element out.
RemoveCommitSplice(i) ==
  /\ favorites' = IF Includes(favorites, calls[i].arg) \/ favorites = <<>>
                     THEN FilterOut(favorites, calls[i].arg)
                     ELSE SubSeq(favorites, 1, Len(favorites) - 1)
  /\ calls' = [calls EXCEPT ![i] = Ended(calls[i], "ok")]
  /\ UNCHANGED <<newFavorite, favLoading, favError, addError, removeError>>

\* The success branch of handleRemoveFavorite, part_001:143-146.
RemoveCommit(i) ==
  /\ favorites' = FilterOut(favorites, calls[i].arg)
  /\ calls' = [calls EXCEPT ![i] = Ended(calls[i], "ok")]
  /\ UNCHANGED <<newFavorite, favLoading, favError, addError, removeError>>

\* The function goes on to await the body: response.json() of an error
\* answer (part_001:34, 137) or of the answer (part_001:42, 93).
AwaitBody(i, status) ==
  /\ calls' = [calls EXCEPT ![i].status = IF calls[i].op = "add" THEN status ELSE 0,
                            ![i].pc = IF calls[i].op # "add" /\ ~IsOk(status)
                                        THEN "errjson" ELSE "json"]
  /\ UNCHANGED <<favorites, newFavorite, favLoading, favError, addError, removeError>>

\* `await fetch(...)` resolves with a response of the given status,
\* part_001:24-42, 84-93, 126-146.
HttpResolve(i, status) ==
  /\ calls[i].pc = "http"
  /\ IF calls[i].op = "remove" /\ IsOk(status)
       THEN RemoveCommit(i)
       ELSE AwaitBody(i, status)
  /\ UNCHANGED <<kind, added, favMounted, favUser, nCalls, appVars, mapVars>>

\* The success branch of fetchFavorites, part_001:42-44, 51.
ListCommit(i, body) ==
  /\ favorites' = IF body.isArray THEN Sort(body.list) ELSE <<>>
  /\ favLoading' = FALSE
  /\ calls' = [calls EXCEPT ![i] = Ended(calls[i], "ok")]
  /\ UNCHANGED <<newFavorite, favError, addError, removeError>>

\* AddCommit as it would be putting the new id in front, without sorting.
AddCommitInFront(i, body) ==
  /\ favorites' = <<body.id>> \o favorites
  /\ newFavorite' = <<>>
  /\ calls' = [calls EXCEPT ![i] = Ended(calls[i], "ok")]
  /\ UNCHANGED <<favLoading, favError, addError, removeError>>

\* AddCommit as it would be inserting the id that was sent.
AddCommitTyped(i, body) ==
  /\ favorites' = Sort(Append(favorites, calls[i].arg))
  /\ newFavorite' = <<>>
  /\ calls' = [calls EXCEPT ![i] = Ended(calls[i], "ok")]
  /\ UNCHANGED <<favLoading, favError, addError, removeError>>

\* AddCommit as it would be appending the id without sorting.
AddCommitUnsorted(i, body) ==
  /\ favorites' = Append(favorites, body.id)
  /\ newFavorite' = <<>>
  /\ calls' = [calls EXCEPT ![i] = Ended(calls[i], "ok")]
  /\ UNCHANGED <<favLoading, favError, addError, removeError>>

\* The success branch of handleAddFavorite, part_001:102-107.
AddCommit(i, body) ==
  /\ favorites' = Sort(Append(favorites, body.id))
  /\ newFavorite' = <<>>
  /\ calls' = [calls EXCEPT ![i] = Ended(calls[i], "ok")]
  /\ UNCHANGED <<favLoading, favError, addError, removeError>>

\* The success branch of handleAddFavorite when data.favorite is undefined,
\* part_001:102-107: console.log and the two setter calls go through, and
\* the updater handed to setFavoriteRoutes throws its TypeError when React
\* runs it for the next render, outside the try block.
AddUpdaterThrows(i) ==
  /\ newFavorite' = <<>>
  /\ calls' = [calls EXCEPT ![i] = Ended(calls[i], "thrown")]
  /\ UNCHANGED <<favorites, favLoading, favError, addError, removeError>>

\* AddConflict as it would be reporting through the fetch-error slot.
AddConflictAsFetchError(i, body) ==
  /\ favError' = OrElse(body.message, MsgConflict)
  /\ calls' = [calls EXCEPT ![i] = Ended(calls[i], "conflict")]
  /\ UNCHANGED <<favorites, newFavorite, favLoading, addError, removeError>>

\* The 409 branch of handleAddFavorite, part_001:97-98.
AddConflict(i, body) ==
  /\ addError' = OrElse(body.message, MsgConflict)
  /\ calls' = [calls EXCEPT ![i] = Ended(calls[i], "conflict")]
  /\ UNCHANGED <<favorites, newFavorite, favLoading, favError, removeError>>

\* `await response.json()` settles with the given body, part_001:34-39,
\* 42-44, 93-108, 137-140.
BodySettle(i, body) ==
  LET c == calls[i] IN
  /\ c.pc \in {"json", "errjson"}
  /\ body \in BodiesFor(c)
  /\ IF c.pc = "errjson"
       THEN FavCatch(i, OrElse(body.message, MsgHttpStatus))
     ELSE IF ~body.parseable
       THEN FavCatch(i, MsgParse)
     ELSE IF c.op = "list"
       THEN ListCommit(i, body)
     ELSE IF IsOk(c.status)
       THEN IF HasFavorite(body) THEN AddCommit(i, body) ELSE AddUpdaterThrows(i)
     ELSE IF c.status = 409
       THEN AddConflict(i, body)
     ELSE FavCatch(i, OrElse(body.message, MsgHttpStatus))
  /\ added' = IF c.pc = "json" /\ body.parseable /\ c.op = "add" /\ IsOk(c.status)
                   /\ HasFavorite(body)
                THEN Append(added, [sent |-> c.arg, returned |-> body.id])
                ELSE added
  \* An exception thrown while rendering, with no error boundary above,
  \* makes React remove the component tree.
  /\ favMounted' = IF c.pc = "json" /\ body.parseable /\ c.op = "add" /\ IsOk(c.status)
                       /\ ~HasFavorite(body)
                     THEN FALSE
                     ELSE favMounted
  /\ UNCHANGED <<kind, favUser, nCalls, appVars, mapVars>>

\* The parent removes the component.
\* Its pending calls are not aborted: they run to their end and call
\* their setters.
FavUnmount ==
  /\ favMounted
  /\ favMounted' = FALSE
  /\ UNCHANGED <<kind, added, favUser, favorites, newFavorite, favLoading, favError, addError,
                 removeError, calls, nCalls, appVars, mapVars>>

\* ============================================================== MapDisplay

\* The repository holds two revisions of the component: the file that App
\* imports, components/MapDisplay.jsx, and the later text in part_000
\* (part_000:27-77).  Both are rendered on the same prop.
MapRevisions == {"components", "part_000"}

\* Longest trip-update list the model hands to the component.
MaxTrips == 3

\* undefined / null in a field that otherwise holds a string.
Undef == <<"undefined">>
\* a || b: the empty string, null and undefined are falsy.
Truthy(s) == s # Undef /\ s # <<>>

\* A coordinate, or null / undefined in its place.
Num(n) == [isNull |-> FALSE, v |-> n]
NullNum == [isNull |-> TRUE, v |-> 0]

\* first_future_stop of a trip update, or null in its place.
Stop(lat, lon, name, id) ==
  [present |-> TRUE, latitude |-> lat, longitude |-> lon, stop_name |-> name, stop_id |-> id]
NoStop ==
  [present |-> FALSE, latitude |-> NullNum, longitude |-> NullNum, stop_name |-> Undef,
   stop_id |-> Undef]

Update(trip, route, stop) == [trip_id |-> trip, route_id |-> route, first_future_stop |-> stop]

\* Trip updates the feed can hold: with and without trip id, route id,
\* stop, coordinates and stop name; two of them share the trip id T1.
TripUpdateSamples ==
  { Update(<<"T", "1">>, <<"L">>, Stop(Num(1), Num(2), <<"S">>, <<"9">>)),
    Update(<<"T", "2">>, <<"L">>, NoStop),
    Update(<<"T", "3">>, <<"L">>, Stop(NullNum, Num(2), <<"S">>, <<"9">>)),
    Update(<<"T", "1">>, <<"A">>, Stop(Num(3), Num(4), Undef, <<"9">>)),
    Update(Undef, <<"L">>, Stop(Num(1), Num(2), <<>>, <<"8">>)),
    Update(Undef, Undef, Stop(Num(5), Num(6), <<"S">>, <<"8">>)),
    Update(<<"T", "4">>, Undef, Stop(Num(1), NullNum, <<"S">>, <<"9">>)) }

RECURSIVE ListsUpTo(_)
ListsUpTo(n) ==
  IF n = 0 THEN {<<>>}
  ELSE LET shorter == ListsUpTo(n - 1)
       IN shorter \cup { Append(l, u) : l \in shorter, u \in TripUpdateSamples }

\* What the parent can pass as tripUpdates: an array, or undefined
\* (subwayStatus?.trip_updates before the first status answer, App.jsx:256).
PropValues ==
  {[defined |-> FALSE, list |-> <<>>]} \cup { [defined |-> TRUE, list |-> l] : l \in ListsUpTo(MaxTrips) }

\* The filter, components/MapDisplay.jsx:12-16 and part_000:35-39.
HasCoordsLatitudeOnly(update) ==
  /\ update.first_future_stop.present
  /\ ~update.first_future_stop.latitude.isNull

HasCoords(update) ==
  /\ update.first_future_stop.present
  /\ ~update.first_future_stop.latitude.isNull
  /\ ~update.first_future_stop.longitude.isNull

updatesWithCoords(prop) ==
  SelectSeq(IF prop.defined THEN prop.list ELSE <<>>, HasCoords)

\* String(n) of a non-negative integer, as a template literal inserts it.
Digits == <<"0", "1", "2", "3", "4", "5", "6", "7", "8", "9">>
RECURSIVE DecimalString(_)
DecimalString(n) ==
  IF n < 10 THEN <<Digits[n + 1]>>
  ELSE DecimalString(n \div 10) \o <<Digits[(n % 10) + 1]>>

\* The key attribute of a <Marker>: components/MapDisplay.jsx:33 is
\* update.trip_id; part_000:54 is `${trip_id}-${index}` when trip_id is
\* truthy and `marker-${route_id || 'unknown'}-${index}` otherwise.
MarkerKey(rev, update, index) ==
  IF rev = "components" THEN update.trip_id
  ELSE IF Truthy(update.trip_id)
    THEN update.trip_id \o <<"-">> \o DecimalString(index)
  ELSE <<"m", "a", "r", "k", "e", "r", "-">>
         \o (IF Truthy(update.route_id) THEN update.route_id
             ELSE <<"u", "n", "k", "n", "o", "w", "n">>)
         \o <<"-">> \o DecimalString(index)

\* The text after "Stop: " in the popup: components/MapDisplay.jsx:43 is
\* stop_name || `ID ${stop_id}`; part_000:62 is stop_name || 'Unknown'
\* (followed by the id in brackets, which is not part of the label).
StopLabel(rev, stop) ==
  IF Truthy(stop.stop_name) THEN stop.stop_name
  ELSE IF rev = "components" THEN <<"I", "D", " ">> \o stop.stop_id
  ELSE <<"U", "n", "k", "n", "o", "w", "n">>

\* One <Marker> with its <Popup>, components/MapDisplay.jsx:30-48 and
\* part_000:51-67 (index is the position in the filtered array).
Marker(rev, update, index) ==
  [key |-> MarkerKey(rev, update, index),
   position |-> <<update.first_future_stop.latitude.v, update.first_future_stop.longitude.v>>,
   route |-> IF Truthy(update.route_id) THEN update.route_id ELSE <<"N", "/", "A">>,
   stopLabel |-> StopLabel(rev, update.first_future_stop),
   trip |-> update.trip_id]

\* The markers of one render.
Markers(rev, prop) ==
  LET kept == updatesWithCoords(prop)
  IN [i \in 1 .. Len(kept) |-> Marker(rev, kept[i], i - 1)]

\* Before the parent passes anything: defaultProps tripUpdates: [],
\* components/MapDisplay.jsx:56-58, part_000:73-75.
MapInit ==
  /\ tripUpdates = [defined |-> TRUE, list |-> <<>>]
  /\ markers = [rev \in MapRevisions |-> <<>>]

\* The parent passes another value and the component renders again.
MapRender(prop) ==
  /\ prop # tripUpdates
  /\ tripUpdates' = prop
  /\ markers' = [rev \in MapRevisions |-> Markers(rev, prop)]
  /\ UNCHANGED <<appVars, favVars>>

AllBodies == ErrorBodies \cup ListOkBodies \cup AddOkBodies

FavNext ==
  \/ \E u \in Users \cup {NULL} : FavSetUser(u)
  \/ \E t \in Texts : ChangeInput(t)
  \/ HandleAdd
  \/ HandleAddIgnored
  \/ \E id \in ServerIds : HandleRemove(id)
  \/ \E id \in ServerIds : HandleRemoveIgnored(id)
  \/ \E i \in CallIds, m \in TokenMessages : TokenReject(i, m)
  \/ \E i \in CallIds : TokenResolve(i)
  \/ \E i \in CallIds : HttpReject(i)
  \/ \E i \in CallIds, st \in Statuses : HttpResolve(i, st)
  \/ \E i \in CallIds, b \in AllBodies : BodySettle(i, b)
  \/ FavUnmount

AppNext ==
  \/ AppMount
  \/ AppUnmount
  \/ StatusTick
  \/ \E n \in ReqIds : StatusFetchReject(n)
  \/ \E n \in ReqIds, r \in HttpResponses(StatusPayloads) : StatusFetchResolve(n, r)
  \/ \E n \in ReqIds, b \in BOOLEAN : StatusTextSettle(n, b)
  \/ \E n \in ReqIds : StatusJsonSettle(n)
  \/ AccessFetchReject
  \/ \E r \in HttpResponses(AccessPayloads) : AccessFetchResolve(r)
  \/ \E b \in BOOLEAN : AccessTextSettle(b)
  \/ AccessJsonSettle
  \/ \E u \in Users \cup {NULL} : AuthCallback(u)

\* The events of the status poller: mount, unmount, the interval and the
\* settling of the status requests.
StatusNext ==
  \/ AppMount
  \/ AppUnmount
  \/ StatusTick
  \/ \E n \in ReqIds : StatusFetchReject(n)
  \/ \E n \in ReqIds, r \in HttpResponses(StatusPayloads) : StatusFetchResolve(n, r)
  \/ \E n \in ReqIds, b \in BOOLEAN : StatusTextSettle(n, b)
  \/ \E n \in ReqIds : StatusJsonSettle(n)

\* The events of the session watcher and of the outage request: mount,
\* unmount, the provider's callbacks and the settling of the one request.
SessionNext ==
  \/ AppMount
  \/ AppUnmount
  \/ \E u \in Users \cup {NULL} : AuthCallback(u)
  \/ AccessFetchReject
  \/ \E r \in HttpResponses(AccessPayloads) : AccessFetchResolve(r)
  \/ \E b \in BOOLEAN : AccessTextSettle(b)
  \/ AccessJsonSettle

Init == AppInit /\ FavInit /\ MapInit

\* The initial state in which the favorites instance is the routes component.
InitRoutes == Init /\ kind = "routes"

\* The App component with the status poller's events only (the outage
\* request and the identity provider stay silent).
SpecStatus == Init /\ [][StatusNext]_vars

\* The App component with the session watcher's and the outage request's
\* events only (the status poller is started and stopped, its requests stay
\* pending).
SpecSession == Init /\ [][SessionNext]_vars

\* The App component with all its events.  The favorites instance takes no
\* step here, so one of the two kinds stands for both.
SpecApp == InitRoutes /\ [][AppNext]_vars

\* The three data sources side by side: App is mounted, its first status
\* request and its outage request settle, and a favorites component
\* follows the session with its list requests and removes.
SourcesNext ==
  \/ AppMount
  \/ \E n \in ReqIds : StatusFetchReject(n)
  \/ \E n \in ReqIds, r \in HttpResponses(StatusPayloads) : StatusFetchResolve(n, r)
  \/ \E n \in ReqIds, b \in BOOLEAN : StatusTextSettle(n, b)
  \/ \E n \in ReqIds : StatusJsonSettle(n)
  \/ AccessFetchReject
  \/ \E r \in HttpResponses(AccessPayloads) : AccessFetchResolve(r)
  \/ \E b \in BOOLEAN : AccessTextSettle(b)
  \/ AccessJsonSettle
  \/ \E u \in Users \cup {NULL} : FavSetUser(u)
  \/ \E id \in ServerIds : HandleRemove(id)
  \/ \E i \in CallIds, m \in TokenMessages : TokenReject(i, m)
  \/ \E i \in CallIds : TokenResolve(i)
  \/ \E i \in CallIds : HttpReject(i)
  \/ \E i \in CallIds, st \in Statuses : HttpResolve(i, st)
  \/ \E i \in CallIds, b \in AllBodies : BodySettle(i, b)

\* App and one favorites component (the routes one stands for both), the
\* steps of the three data sources interleaved.
SpecSources == InitRoutes /\ [][SourcesNext]_vars

\* The answers that the requests get where only their completion matters:
\* one payload per endpoint, one identity, one text of each kind.
OneStatusPayload == { p \in StatusPayloads : p.feed_timestamp = 1 }
OneAccessPayload == { p \in AccessPayloads : p.outages = 1 }
OneUser == {"uA"}
FewBodies == { Unparseable, Body(TRUE, NULL, TRUE, << <<"A", "1">> >>, <<>>) }

\* A pending await of status request n, of the outage request, of
\* favorites call i settles.
StatusSettles(n) ==
  \/ StatusFetchReject(n)
  \/ \E r \in HttpResponses(OneStatusPayload) : StatusFetchResolve(n, r)
  \/ \E b \in BOOLEAN : StatusTextSettle(n, b)
  \/ StatusJsonSettle(n)
AccessSettles ==
  \/ AccessFetchReject
  \/ \E r \in HttpResponses(OneAccessPayload) : AccessFetchResolve(r)
  \/ \E b \in BOOLEAN : AccessTextSettle(b)
  \/ AccessJsonSettle
CallSettles(i) ==
  \/ TokenReject(i, "")
  \/ TokenResolve(i)
  \/ HttpReject(i)
  \/ \E st \in {200, 500} : HttpResolve(i, st)
  \/ \E b \in FewBodies : BodySettle(i, b)

\* The requests that carry a loading flag, from dispatch to teardown: App
\* is mounted and removed, its first status request and its outage request
\* settle (the interval does not fire before App is removed); the favorites
\* component gets its user, its list request settles, and it is removed.
LoadingNext ==
  \/ AppMount
  \/ AppUnmount
  \/ \E n \in ReqIds : StatusSettles(n)
  \/ AccessSettles
  \/ \E u \in OneUser : FavSetUser(u)
  \/ \E i \in CallIds : CallSettles(i)
  \/ FavUnmount

\* Every await of every dispatched request settles at some time: the
\* network and the identity provider answer or fail, they do not hang.
EveryRequestCompletes ==
  /\ WF_vars(\E n \in ReqIds : StatusSettles(n))
  /\ WF_vars(AccessSettles)
  /\ WF_vars(\E i \in CallIds : CallSettles(i))

\* App and one favorites component with the requests that carry a loading
\* flag, under the assumption that no request hangs.
SpecLoading == InitRoutes /\ [][LoadingNext]_vars /\ EveryRequestCompletes

\* The renders of MapDisplay.
MapNext == \E prop \in PropValues : MapRender(prop)

\* MapDisplay under an arbitrary parent.
SpecMap == InitRoutes /\ [][MapNext]_vars

\* A favorites component (either of the two) under an arbitrary parent.
SpecFav == Init /\ [][FavNext]_vars

\* ============================================================== properties

\* ---- StatusPoller

StatusInFlight(n) == statusPc[n] \in {"fetch", "text", "json"}

\* Request n ends in this step through the success branch.
StatusSucceeds(n) ==
  /\ statusPc[n] = "json"
  /\ statusResp[n].parseable
  /\ statusPc'[n] = "done"

\* Request n ends in this step through the catch block: fetch rejected, the
\* answer was not 2xx, or its body did not parse.
StatusFails(n) ==
  /\ StatusInFlight(n)
  /\ statusPc'[n] = "done"
  /\ ~(statusPc[n] = "json" /\ statusResp[n].parseable)

\* C1: once mounted, exactly the requests 0 .. ticks have been dispatched,
\* request n at time n * 60 s; while the component is mounted the interval
\* stays registered, and the next tick can fire whatever the state of the
\* earlier requests (pending, succeeded or failed).
C1_DispatchEveryTick ==
  /\ appPhase # "init" =>
       \A n \in ReqIds :
         /\ (statusPc[n] # "idle") <=> (n <= ticks)
         /\ n <= ticks => statusAt[n] = n * PollMs
  /\ appPhase = "init" => \A n \in ReqIds : statusPc[n] = "idle"
  /\ appPhase = "mounted" => intervalActive
  /\ (appPhase = "mounted" /\ ticks < MaxTicks) => ENABLED StatusTick

\* Two status requests are pending at once, the second dispatched at 60 s.
C1_Witness ==
  /\ appPhase = "mounted"
  /\ statusPc[0] = "fetch"
  /\ statusPc[1] = "fetch"
  /\ statusAt[1] = PollMs

\* C2: the step in which a status request succeeds makes the stored
\* snapshot that request's payload, whole, and clears the status error.
C2_SuccessReplacesSnapshot ==
  [][\A n \in ReqIds :
       StatusSucceeds(n) =>
         /\ subwayStatus' = statusResp[n].data
         /\ subwayStatus' \in StatusPayloads
         /\ statusError' = NULL]_vars

\* Both requests have ended, the second one last and with success: its
\* payload is the stored snapshot and the error slot is clear.
C2_Witness ==
  /\ statusPc[0] = "done"
  /\ statusPc[1] = "done"
  /\ statusLast = 1
  /\ subwayStatus \in StatusPayloads
  /\ subwayStatus.feed_timestamp = 1
  /\ statusError = NULL

\* C3: the step in which a status request fails sets the status error to a
\* message and leaves the stored snapshot as it was.
C3_FailureKeepsSnapshot ==
  [][\A n \in ReqIds :
       StatusFails(n) =>
         /\ statusError' \in StatusMessages
         /\ subwayStatus' = subwayStatus]_vars

\* A failure after a success: error set, snapshot still there.
C3_Witness ==
  /\ statusLast = 1
  /\ statusPc[1] = "done"
  /\ statusError \in StatusMessages
  /\ subwayStatus \in StatusPayloads

\* C4: after teardown no status request is dispatched; teardown itself
\* leaves the requests in flight as they are, and they can still settle.
C4_TeardownStopsPolling ==
  /\ [][appPhase' = "unmounted" =>
          /\ \A n \in ReqIds : statusPc[n] = "idle" => statusPc'[n] = "idle"
          /\ appPhase = "mounted" => (statusPc' = statusPc /\ statusResp' = statusResp)]_vars
  /\ [](appPhase = "unmounted" =>
          /\ ~ENABLED StatusTick
          /\ \A n \in ReqIds : statusPc[n] = "fetch" => ENABLED StatusFetchReject(n))

\* Torn down before the last tick, with the request of mount still pending.
C4_Witness ==
  /\ appPhase = "unmounted"
  /\ ticks < MaxTicks
  /\ statusPc[0] = "fetch"

\* C5: after teardown of the owning component no state slot changes.
C5_NoChangeAfterTeardown ==
  [][/\ appPhase = "unmounted" =>
          UNCHANGED <<subwayStatus, isStatusLoading, statusError,
                      accessData, isAccessLoading, accessError>>
     /\ ~favMounted =>
          UNCHANGED <<favorites, favLoading, favError, addError, removeError>>]_vars

\* C6: a request that ends after a request dispatched at a later tick has
\* been applied changes neither the snapshot nor the status error.
C6_StaleResultDiscarded ==
  [][\A n \in ReqIds :
       (StatusInFlight(n) /\ statusPc'[n] = "done" /\ statusLast > n) =>
         UNCHANGED <<subwayStatus, statusError>>]_vars

\* ---- FavoritesStore

\* Call i, in flight, ends in this step.
CallEnds(i) == calls[i].pc \in Awaiting /\ calls'[i].pc \notin Awaiting

\* A call of the given function starts in this step.
CallStarts(op) == nCalls' = nCalls + 1 /\ calls'[nCalls'].op = op

\* The error slots hold a message when they hold neither null nor "".
IsMessage(x) == x # NULL /\ x # ""

\* C7: remove changes the collection in no step but the one in which its
\* delete request is answered with success: not when it is invoked, not
\* when its token arrives, not when it fails; and the success step removes
\* the id and keeps the other members in their order.
C7_RemoveAfterConfirm ==
  [][/\ CallStarts("remove") => favorites' = favorites
     /\ \A i \in CallIds :
          (calls[i].op = "remove" /\ calls[i].pc \in Awaiting /\ calls'[i] # calls[i]) =>
            IF calls'[i].pc = "ok"
              THEN /\ calls[i].pc = "http"
                   /\ favorites' = SelectSeq(favorites, LAMBDA e : e # calls[i].arg)
              ELSE favorites' = favorites]_vars

\* A confirmed remove has taken its id out and left another member.
C7_Witness ==
  \E i \in CallIds :
    /\ calls[i].op = "remove"
    /\ calls[i].pc = "ok"
    /\ favorites = << <<"a", "1">> >>

\* C8: the step in which a remove call ends without success leaves the
\* collection unchanged and puts a message into the remove-error slot.
C8_RemoveFailureReported ==
  [][\A i \in CallIds :
       (calls[i].op = "remove" /\ CallEnds(i) /\ calls'[i].pc # "ok") =>
         /\ favorites' = favorites
         /\ IsMessage(removeError')]_vars

\* A remove has failed with the fallback text, the collection still there.
C8_Witness ==
  \E i \in CallIds :
    /\ calls[i].op = "remove"
    /\ calls[i].pc = "error"
    /\ removeError = DefaultMsg("remove")
    /\ favorites # <<>>

\* The normalized text of the input field is already in the collection.
TypedIsDuplicate == Includes(favorites, Normalize(kind, newFavorite))

\* C9: a submit of an id already in the collection starts no call (no token
\* request, no HTTP request), leaves the collection unchanged and sets the
\* add-error slot to the local duplicate message.
C9_DuplicateAddIsLocal ==
  [][/\ (HandleAdd /\ TypedIsDuplicate) =>
          /\ calls' = calls
          /\ nCalls' = nCalls
          /\ favorites' = favorites
          /\ addError' = MsgDuplicate
     /\ TypedIsDuplicate => ~CallStarts("add")]_vars

\* " l " was submitted to the routes component while "L" is a favorite.
C9_Witness ==
  /\ kind = "routes"
  /\ newFavorite = <<" ", "l", " ">>
  /\ Includes(favorites, <<"L">>)
  /\ addError = MsgDuplicate
  /\ InFlight = {}

\* C10: the step in which an add call that was answered 409 ends leaves the
\* collection, the fetch-error slot, the remove-error slot and the loading
\* flag unchanged and puts a message into the add-error slot.
C10_ConflictOnlyAddError ==
  [][\A i \in CallIds :
       (calls[i].op = "add" /\ calls[i].pc = "json" /\ calls[i].status = 409 /\ CallEnds(i)) =>
         /\ favorites' = favorites
         /\ favError' = favError
         /\ removeError' = removeError
         /\ favLoading' = favLoading
         /\ IsMessage(addError')]_vars

\* An add has ended in the 409 branch with the fallback text.
C10_Witness ==
  \E i \in CallIds :
    /\ calls[i].op = "add"
    /\ calls[i].pc = "conflict"
    /\ addError = MsgConflict
    /\ favError = NULL

\* C11: the collection holds no id twice, in every reachable state.
C11_NoDuplicateIds ==
  \A i, j \in 1 .. Len(favorites) : favorites[i] = favorites[j] => i = j

\* C12: the collection is in ascending order (code-unit order of the ids,
\* equal neighbours allowed), in every reachable state.
C12_SortedAscending ==
  \A i \in 1 .. Len(favorites) - 1 : ~StrLess(favorites[i + 1], favorites[i])

\* A list answer, an add and a remove have all succeeded and two ids are
\* left in the collection.
C12_Witness ==
  /\ Len(favorites) >= 2
  /\ \E i \in CallIds : calls[i].op = "list" /\ calls[i].pc = "ok"
  /\ \E i \in CallIds : calls[i].op = "add" /\ calls[i].pc = "ok"
  /\ \E i \in CallIds : calls[i].op = "remove" /\ calls[i].pc = "ok"

\* A call of the given function, in flight, takes a step (an await of it
\* settles).
CallContinues(op) ==
  \E i \in CallIds : calls[i].op = op /\ calls[i].pc \in Awaiting /\ calls'[i] # calls[i]

\* A submit of the add form that passes the handler's guard: it starts a
\* call or ends in the local duplicate branch.
AddSubmitted ==
  /\ favMounted /\ favUser # NULL /\ Trim(newFavorite) # <<>>
  /\ \/ CallStarts("add")
     \/ TypedIsDuplicate /\ UNCHANGED <<calls, newFavorite, favUser, favMounted, favorites>>

\* C13 as stated: no step of add (start or completion) changes the
\* fetch-error or remove-error slot, no step of remove changes the
\* fetch-error or add-error slot, no step of list-fetch changes the
\* add-error or remove-error slot.
C13_OnlyOwnSlotWritten ==
  [][/\ (AddSubmitted \/ CallContinues("add")) => UNCHANGED <<favError, removeError>>
     /\ (CallStarts("remove") \/ CallContinues("remove")) => UNCHANGED <<favError, addError>>
     /\ (CallStarts("list") \/ CallContinues("list")) => UNCHANGED <<addError, removeError>>]_vars

\* C13 amended: the completion of list-fetch, add or remove changes no error
\* slot but its own; the start of add leaves the fetch-error slot unchanged
\* and clears the remove-error slot, the start of remove leaves the
\* fetch-error slot unchanged and clears the add-error slot, the start of
\* list-fetch leaves the add-error slot unchanged and clears the
\* remove-error slot.
C13_OwnSlotOrClearing ==
  [][/\ CallContinues("add") => UNCHANGED <<favError, removeError>>
     /\ CallContinues("remove") => UNCHANGED <<favError, addError>>
     /\ CallContinues("list") => UNCHANGED <<addError, removeError>>
     /\ AddSubmitted => (favError' = favError /\ removeError' = NULL)
     /\ CallStarts("remove") => (favError' = favError /\ addError' = NULL)
     /\ CallStarts("list") => (addError' = addError /\ removeError' = NULL)]_vars

\* A remove failed, then an add was submitted and failed: the add-error
\* slot holds the add's message, the remove-error slot was cleared by the
\* submit, the fetch-error slot was touched by neither.
C13_Witness ==
  /\ calls[1].op = "list" /\ calls[1].pc = "ok"
  /\ calls[2].op = "remove" /\ calls[2].pc = "error"
  /\ calls[3].op = "add" /\ calls[3].pc = "error"
  /\ IsMessage(addError)
  /\ removeError = NULL
  /\ favError = NULL

\* C14: a call of the list function starts only in a step that leaves the
\* component with a non-null identity, and the call works for that
\* identity; the step in which the identity becomes null empties the
\* collection, clears the fetch-error slot and resets the loading flag.
C14_ListOnlyInSession ==
  [][/\ CallStarts("list") => (favUser' # NULL /\ calls'[nCalls'].user = favUser')
     /\ (favUser # NULL /\ favUser' = NULL) =>
          (favorites' = <<>> /\ favError' = NULL /\ favLoading' = FALSE)]_vars

\* The list call failed and an add succeeded, then the identity became
\* null: the collection is empty again and the fetch error is gone.
C14_Witness ==
  /\ nCalls = 2
  /\ calls[1].op = "list" /\ calls[1].pc = "error"
  /\ calls[2].op = "add" /\ calls[2].pc = "ok"
  /\ favUser = NULL
  /\ favorites = <<>>
  /\ favError = NULL
  /\ ~favLoading

\* ---- SessionWatcher

\* The session state the component displays (App.jsx:207-213, 230-233).
SessionState ==
  IF authLoading THEN "checking"
  ELSE IF currentUser # NULL THEN "authenticated"
  ELSE "anonymous"

\* C15: the session state is "checking", with no identity, as long as the
\* provider has not called back; after a callback it is
\* authenticated with the identity of the latest callback when that was
\* non-null and anonymous when it was null; and a step never leads from
\* another state back to "checking".
C15_StateFollowsCallbacks ==
  /\ [](authLast = NoCallback => (SessionState = "checking" /\ currentUser = NULL))
  /\ [](authLast \in Users => (SessionState = "authenticated" /\ currentUser = authLast))
  /\ [](authLast = NULL => SessionState = "anonymous")
  /\ [][SessionState # "checking" => SessionState' # "checking"]_vars

\* The provider's latest callback reported no user while the outage request
\* had already ended: the state is anonymous.
C15_Witness ==
  /\ appPhase = "mounted"
  /\ authLast = NULL
  /\ SessionState = "anonymous"
  /\ accessPc = "done"

\* C16: a listener is registered in one step only, the mount, and taken
\* away in one step only, the teardown; one listener is registered while
\* the component is mounted, none before and none after; after teardown no
\* callback can arrive and the session state does not change.
C16_OneListener ==
  /\ [][/\ authListeners' > authListeners => (appPhase = "init" /\ appPhase' = "mounted")
        /\ authListeners' < authListeners => (appPhase = "mounted" /\ appPhase' = "unmounted")
        /\ appPhase = "unmounted" => UNCHANGED <<currentUser, authLoading>>]_vars
  /\ [](authListeners = IF appPhase = "mounted" THEN 1 ELSE 0)
  /\ [](appPhase = "unmounted" => \A u \in Users \cup {NULL} : ~ENABLED AuthCallback(u))

\* Torn down with a user signed in.
C16_Witness ==
  /\ appPhase = "unmounted"
  /\ authListeners = 0
  /\ currentUser \in Users

\* ---- tokens

\* The authorized request of call i has been sent (it is pending or
\* answered) and the call has not returned.
RequestSent(i) == calls[i].pc \in {"http", "json", "errjson"}

\* C17: a call that has not yet got its token has sent no request; every
\* request sent carries the token of the getIdToken call made by the same
\* call (list, add or remove) after it started; and no two calls hold the
\* same token.
C17_FreshTokenPerRequest ==
  /\ \A i \in CallIds :
       /\ calls[i].pc = "token" => calls[i].token = NoToken
       /\ RequestSent(i) => (calls[i].token = TokenOf(i) /\ calls[i].token # NoToken)
  /\ \A i, j \in CallIds :
       (RequestSent(i) /\ RequestSent(j) /\ calls[i].token = calls[j].token) => i = j

\* The requests of an add and of a remove are pending at once, each with
\* its own token.
C17_Witness ==
  \E i, j \in CallIds :
    /\ calls[i].op = "add" /\ calls[i].pc = "http"
    /\ calls[j].op = "remove" /\ calls[j].pc = "http"
    /\ calls[i].token # calls[j].token

\* ---- add

\* Number of occurrences of x in the list.
Count(list, x) == Cardinality({ k \in 1 .. Len(list) : list[k] = x })

\* Add call i ends in this step through the success branch.
AddSucceeds(i) == calls[i].op = "add" /\ CallEnds(i) /\ calls'[i].pc = "ok"

\* The latest add that succeeded.
LastAdded == added[Len(added)]

\* C18: the step in which an add call succeeds puts one more occurrence of
\* the id of the server's answer into the collection, changes the number of
\* occurrences of no other id (all previous members stay, the id that was
\* sent is not inserted unless it is the one answered), and leaves the
\* collection in ascending order.
C18_AddInsertsServerId ==
  [][\A i \in CallIds :
       AddSucceeds(i) =>
         /\ Len(added') = Len(added) + 1
         /\ LastAdded'.sent = calls[i].arg
         /\ \A x \in ServerIds \cup {calls[i].arg} :
              Count(favorites', x) =
                Count(favorites, x) + (IF x = LastAdded'.returned THEN 1 ELSE 0)
         /\ Len(favorites') = Len(favorites) + 1
         /\ \A k \in 1 .. Len(favorites') - 1 :
              ~StrLess(favorites'[k + 1], favorites'[k])]_vars

\* An add has succeeded with an answer naming another id than the one
\* sent: the answered id is in the collection beside an earlier member, the
\* sent one is not.
C18_Witness ==
  /\ added # <<>>
  /\ LastAdded.returned # LastAdded.sent
  /\ Includes(favorites, LastAdded.returned)
  /\ ~Includes(favorites, LastAdded.sent)
  /\ Len(favorites) >= 2

\* The component has had a session since its first list call, that call
\* failed (the collection was still empty when it ended), and the two other
\* calls were adds that succeeded: the collection is what two adds make of
\* the empty collection.
TwoAddsFromEmpty ==
  /\ nCalls = 3
  /\ favUser # NULL
  /\ calls[1].op = "list" /\ calls[1].pc = "error"
  /\ calls[2].op = "add" /\ calls[2].pc = "ok"
  /\ calls[3].op = "add" /\ calls[3].pc = "ok"
  /\ Len(added) = 2

\* C19: after two successful adds of distinct ids to the empty collection,
\* in whichever order the two were added, the collection is exactly the two
\* ids, the smaller first.
C19_OrderIndependent ==
  TwoAddsFromEmpty =>
    LET a == added[1].returned
        b == added[2].returned
    IN a # b => favorites = IF StrLess(a, b) THEN <<a, b>> ELSE <<b, a>>

\* The greater id was added first, the smaller second.
C19_Witness ==
  /\ TwoAddsFromEmpty
  /\ added[1] = [sent |-> <<"a", "1">>, returned |-> <<"a", "1">>]
  /\ added[2].returned = <<"L">>
  /\ favorites = << <<"L">>, <<"a", "1">> >>

\* The smaller id was added first, the greater second.
C19_WitnessReverse ==
  /\ TwoAddsFromEmpty
  /\ added[1].returned = <<"L">>
  /\ added[2] = [sent |-> <<"a", "1">>, returned |-> <<"a", "1">>]
  /\ favorites = << <<"L">>, <<"a", "1">> >>

\* id is text without its leading and trailing spaces, for routes with
\* every letter in upper case, for stations with every character as typed.
IsNormalOf(k, id, text) ==
  /\ id # <<>>
  /\ id[1] # SP /\ id[Len(id)] # SP
  /\ \E p \in 0 .. Len(text) :
       /\ p + Len(id) <= Len(text)
       /\ \A j \in 1 .. Len(text) :
            IF j <= p \/ j > p + Len(id) THEN text[j] = SP
            ELSE id[j - p] = (IF k = "routes" THEN UpperChar(text[j]) ELSE text[j])

\* C20: the id an add call is started with is the typed text normalized
\* (" l " gives "L" for routes and "l" for stations, "a1" gives "A1" for
\* routes and stays "a1" for stations), and it is not in the collection; a
\* submit whose normalized text is in the collection starts no call; and
\* for stations "a1" is no duplicate of "A1": with "A1" but not "a1" in the
\* collection, a submit of "a1" does not raise the duplicate message.
C20_AddNormalizes ==
  [][/\ CallStarts("add") =>
          LET id == calls'[nCalls'].arg
          IN /\ IsNormalOf(kind, id, newFavorite)
             /\ ~Includes(favorites, id)
             /\ (kind = "routes" /\ newFavorite = <<" ", "l", " ">>) => id = <<"L">>
             /\ (kind = "stations" /\ newFavorite = <<"a", "1">>) => id = <<"a", "1">>
     /\ (\E k \in 1 .. Len(favorites) : IsNormalOf(kind, favorites[k], newFavorite)) =>
          ~CallStarts("add")
     /\ ( /\ kind = "stations"
          /\ newFavorite = <<"a", "1">>
          /\ Includes(favorites, <<"A", "1">>)
          /\ ~Includes(favorites, <<"a", "1">>)
          /\ addError # MsgDuplicate ) => addError' # MsgDuplicate]_vars

\* The stations component has "A1" in its collection and an add of "a1"
\* under way.
C20_Witness ==
  /\ kind = "stations"
  /\ Includes(favorites, <<"A", "1">>)
  /\ \E i \in CallIds :
       calls[i].op = "add" /\ calls[i].pc \in Awaiting /\ calls[i].arg = <<"a", "1">>

\* ---- remove of a non-member

\* C21: a step of a remove call whose id is not in the collection (it left
\* the collection while the call was in flight) leaves the collection
\* unchanged, whether the step is the arrival of the token, a success
\* answer or any failure, and the call does not end with an exception that
\* escapes it.
C21_RemoveNonMemberNoOp ==
  [][\A i \in CallIds :
       ( /\ calls[i].op = "remove"
         /\ calls[i].pc \in Awaiting
         /\ calls'[i] # calls[i]
         /\ ~Includes(favorites, calls[i].arg) ) =>
           /\ favorites' = favorites
           /\ calls'[i].pc \in Awaiting \cup {"ok", "error"}]_vars

\* The list answered, two removes were confirmed and one id of two is left:
\* both removes were of the same id, and the later confirmation found it
\* gone.
C21_Witness ==
  /\ nCalls = 3
  /\ calls[1].op = "list" /\ calls[1].pc = "ok"
  /\ calls[2].op = "remove" /\ calls[2].pc = "ok"
  /\ calls[3].op = "remove" /\ calls[3].pc = "ok"
  /\ Len(favorites) = 1

\* ---- scenario

\* Call i is the only call in flight: what came before it has completed.
Alone(i) == InFlight = {i}

\* C22: the three steps of the scenario, each taken with nothing else in
\* flight.  (1) An add of "L" that succeeds on the empty collection makes it
\* <<"L">>.  (2) A submit of "L" while the collection is <<"L">> starts no
\* call, leaves the collection <<"L">> and sets the add error to the
\* already-a-favorite message.  (3) A remove of "L" that succeeds on
\* <<"L">> makes the collection empty.
C22_Scenario ==
  [][/\ \A i \in CallIds :
          ( /\ AddSucceeds(i) /\ Alone(i)
            /\ calls[i].arg = <<"L">> /\ LastAdded'.returned = <<"L">>
            /\ favorites = <<>> ) => favorites' = << <<"L">> >>
     /\ ( /\ AddSubmitted /\ InFlight = {}
          /\ Normalize(kind, newFavorite) = <<"L">>
          /\ favorites = << <<"L">> >> ) =>
            /\ favorites' = << <<"L">> >>
            /\ addError' = MsgDuplicate
            /\ InFlight' = {}
            /\ nCalls' = nCalls
     /\ \A i \in CallIds :
          ( /\ calls[i].op = "remove" /\ calls[i].arg = <<"L">> /\ Alone(i)
            /\ CallEnds(i) /\ calls'[i].pc = "ok"
            /\ favorites = << <<"L">> >> ) => favorites' = <<>>]_vars

\* The end of the scenario: after the list call, one add (of "L", answered
\* "L") and one remove have succeeded, nothing is in flight, the session is
\* still there and the collection is empty.
C22_Witness ==
  /\ nCalls = 3
  /\ calls[1].op = "list" /\ calls[1].pc = "ok"
  /\ calls[2].op = "add" /\ calls[2].pc = "ok"
  /\ calls[3].op = "remove" /\ calls[3].pc = "ok"
  /\ added = << [sent |-> <<"L">>, returned |-> <<"L">>] >>
  /\ favUser # NULL
  /\ favorites = <<>>

\* ---- an add and a list answer

\* id is in the collection, an add confirmation put it there, and since
\* then no remove has been confirmed and the session has been the same (the
\* component has made one list call, for the identity it has now).
AddedAndKept(id) ==
  /\ Includes(favorites, id)
  /\ \E k \in 1 .. Len(added) : added[k].returned = id
  /\ favUser # NULL
  /\ Cardinality({ i \in CallIds : calls[i].op = "list" }) = 1
  /\ \A i \in CallIds : ~(calls[i].op = "remove" /\ calls[i].pc = "ok")

\* A remove of id is confirmed in this step.
RemoveConfirmed(id) ==
  \E i \in CallIds :
    calls[i].op = "remove" /\ calls[i].arg = id /\ CallEnds(i) /\ calls'[i].pc = "ok"

\* C23: an id put into the collection by a confirmed add leaves the
\* collection in no step but the confirmation of a remove of it or the loss
\* of the session; the answer of a list request does not drop it.
C23_AddedIdStays ==
  [][\A id \in ServerIds :
       (AddedAndKept(id) /\ ~Includes(favorites', id)) =>
         (RemoveConfirmed(id) \/ favUser' = NULL)]_vars

\* ---- OutageFetcher

\* C24: fetchAccessData has been called once as soon as the component is
\* mounted and never again: not after its failure, not at a tick of the
\* status poll, not at a callback of the identity provider, not at teardown.
C24_SingleOutageFetch ==
  /\ accessCalls = (IF appPhase = "init" THEN 0 ELSE 1)
  /\ (accessPc = "idle") <=> (appPhase = "init")

\* The outage request has failed, the status poll has ticked and a user has
\* signed in: still one call.
C24_Witness ==
  /\ appPhase = "mounted"
  /\ accessPc = "done"
  /\ accessError # NULL
  /\ ticks >= 1
  /\ authLast \in Users
  /\ accessCalls = 1

\* The outage request ends in this step through the catch block.
AccessFails ==
  /\ accessPc \in {"fetch", "text", "json"}
  /\ accessPc' = "done"
  /\ ~(accessPc = "json" /\ accessResp.parseable)

\* C25: the step in which the outage request fails leaves the outage data
\* as it was, which is absent, puts a message into the outage error slot
\* and sets the outage loading flag to false.
C25_OutageFailure ==
  [][AccessFails =>
       /\ accessData' = accessData
       /\ accessData' = NoData
       /\ accessError' \in StatusMessages
       /\ isAccessLoading' = FALSE]_vars

\* The outage request was answered with a non-2xx status and has ended.
C25_Witness ==
  /\ accessPc = "done"
  /\ accessError = MsgHttp
  /\ accessData = NoData
  /\ ~isAccessLoading

\* ---------------------------------------------------------------- C26

\* Positions in the passed list of the updates that have a first future
\* stop with a latitude and a longitude.
Located ==
  { i \in 1 .. Len(tripUpdates.list) :
      LET stop == tripUpdates.list[i].first_future_stop
      IN stop.present /\ ~stop.latitude.isNull /\ ~stop.longitude.isNull }

\* The list of the example: T1 at (1, 2), T2 without stop, T3 with latitude null.
ExampleTrips ==
  << Update(<<"T", "1">>, <<"L">>, Stop(Num(1), Num(2), <<"S">>, <<"9">>)),
     Update(<<"T", "2">>, <<"L">>, NoStop),
     Update(<<"T", "3">>, <<"L">>, Stop(NullNum, Num(2), <<"S">>, <<"9">>)) >>

\* C26: in either revision the markers are, in input order, one per trip
\* update whose first future stop is present with latitude and longitude
\* both non-null, and no others; for [T1 at (1,2), T2 without stop, T3 with
\* latitude null] there is exactly one marker, the one of T1.
C26_MarkersAreLocatedUpdates ==
  \A rev \in MapRevisions :
    /\ Len(markers[rev]) = Cardinality(Located)
    /\ \A i \in Located :
         LET j == Cardinality({k \in Located : k <= i})
             update == tripUpdates.list[i]
         IN /\ markers[rev][j].trip = update.trip_id
            /\ markers[rev][j].position =
                 <<update.first_future_stop.latitude.v, update.first_future_stop.longitude.v>>
    /\ tripUpdates.list = ExampleTrips =>
         /\ Len(markers[rev]) = 1
         /\ markers[rev][1].trip = <<"T", "1">>
         /\ markers[rev][1].position = <<1, 2>>

C26_Witness ==
  /\ tripUpdates.list = ExampleTrips
  /\ \A rev \in MapRevisions : Len(markers[rev]) = 1

\* ---------------------------------------------------------------- C27

\* C27: the keys of the markers of one render are pairwise distinct, in
\* either revision, also when trip updates share a trip id or have none.
C27_KeysDistinct ==
  \A rev \in MapRevisions :
    \A i, j \in 1 .. Len(markers[rev]) :
      i # j => markers[rev][i].key # markers[rev][j].key

\* ---------------------------------------------------------------- C28

\* The error slot that belongs to an operation of the favorites component.
OwnSlot(op) ==
  CASE op = "list" -> favError
    [] op = "add" -> addError
    [] op = "remove" -> removeError

\* C28: a call of a fetch path that ends otherwise than through its success
\* branch (token retrieval failed, network failure, non-2xx answer, body
\* unparseable or malformed) ends in its catch or conflict branch with a
\* message in the error slot of its own operation, and never with an
\* exception that leaves the operation; this for the status poll, the
\* outage fetch and the list, add and remove of the favorites.
C28_FailureReachesOwnSlot ==
  /\ [][\A n \in ReqIds : StatusFails(n) => IsMessage(statusError')]_vars
  /\ [][AccessFails => IsMessage(accessError')]_vars
  /\ [][\A i \in CallIds :
          (CallEnds(i) /\ calls'[i].pc # "ok") =>
             /\ calls'[i].pc \in {"error", "conflict"}
             /\ IsMessage(OwnSlot(calls[i].op)')]_vars

\* ---------------------------------------------------------------- C29

\* The slots of the three data sources.
StatusSlots == <<subwayStatus, isStatusLoading, statusError>>
AccessSlots == <<accessData, isAccessLoading, accessError>>
FavSlots == <<favorites, favLoading, favError, addError, removeError>>

\* A step of the status poll, of the outage fetch, of a favorites operation.
StatusStep == \E n \in ReqIds : statusPc'[n] # statusPc[n]
AccessStep == accessPc' # accessPc
FavStep == calls' # calls \/ favUser' # favUser

ListInFlight == \E i \in CallIds : calls[i].op = "list" /\ calls[i].pc \in Awaiting

\* C30: as long as a status request is in flight the status loading flag is
\* true, as long as the outage request is in flight the outage loading
\* flag is true, as long as a list fetch is in flight the favorites loading
\* flag is true; hence a request that never completes keeps its flag true
\* for ever.
C30_LoadingWhileInFlight ==
  /\ (\E n \in ReqIds : StatusInFlight(n)) => isStatusLoading
  /\ accessPc \in {"fetch", "text", "json"} => isAccessLoading
  /\ ListInFlight => favLoading

\* ---------------------------------------------------------------- C31

\* Call i sends its HTTP request in this step.
SendsRequest(i) == calls[i].pc # "http" /\ calls'[i].pc = "http"

\* C31: a call of list-fetch, add or remove sends its HTTP request in one
\* step only, from its token await; once past that step or ended it never
\* goes back to it, so it sends at most one request.  A new call starts only
\* with a change of the identity (list-fetch) or with a submit or a click
\* of the user (add, remove), and never in the step in which a call
\* continues or fails.
C31_OneShot ==
  [][/\ \A i \in CallIds :
          /\ SendsRequest(i) => calls[i].pc = "token"
          /\ (calls[i].pc # "token" /\ calls'[i].pc = "token") =>
                (calls[i] = NoCall /\ i = nCalls + 1 /\ nCalls' = nCalls + 1)
          /\ calls[i].pc \notin Awaiting \cup {"idle"} => calls'[i] = calls[i]
     /\ nCalls' # nCalls =>
          /\ nCalls' = nCalls + 1
          /\ \A i \in 1 .. nCalls : calls'[i] = calls[i]
          /\ calls'[nCalls'].op = "list" <=> favUser' # favUser
          /\ calls'[nCalls'].op = "add" =>
                (Trim(newFavorite) # <<>> /\ calls'[nCalls'].arg = Normalize(kind, newFavorite))
          /\ calls'[nCalls'].op = "remove" => RemoveShown(calls'[nCalls'].arg)]_vars

\* A list-fetch, an add and a remove have each sent their request and
\* failed; there have been exactly these three calls and nothing is in
\* flight.
C31_Witness ==
  /\ nCalls = 3
  /\ calls[1].op = "list" /\ calls[2].op = "add" /\ calls[3].op = "remove"
  /\ calls[2].pc = "error" /\ calls[3].pc = "error"
  /\ IsMessage(addError) /\ IsMessage(removeError)
  /\ InFlight = {}

\* ---------------------------------------------------------------- C32

\* The getIdToken await of call i is over in this step and no request goes
\* out: the retrieval has failed.
TokenFails(i) == calls[i].pc = "token" /\ calls'[i].pc \notin {"token", "http"}

\* C32: when the token retrieval of a list-fetch, an add or a remove fails,
\* the call ends in its catch block having sent no request (it holds no
\* token and awaits no answer), the collection is unchanged, and the error
\* slot of that operation holds a message.
C32_TokenFailure ==
  [][\A i \in CallIds :
       TokenFails(i) =>
         /\ calls'[i].pc = "error"
         /\ calls[i].token = NoToken /\ calls'[i].token = NoToken
         /\ favorites' = favorites
         /\ IsMessage(OwnSlot(calls[i].op)')]_vars

\* The token retrievals of an add and of a remove were rejected without a
\* text: both slots hold their fallback text and the listed ids are still
\* there.
C32_Witness ==
  /\ calls[1].op = "list" /\ calls[1].pc = "ok"
  /\ calls[2].op = "add" /\ calls[2].pc = "error" /\ addError = DefaultMsg("add")
  /\ calls[3].op = "remove" /\ calls[3].pc = "error" /\ removeError = DefaultMsg("remove")
  /\ favorites # <<>>

\* ---------------------------------------------------------------- C33

\* C33: in either revision the stop label of each marker is the name of
\* the stop of its trip update when the stop has a name (neither null nor
\* empty), and otherwise "ID " followed by the stop id.
C33_StopLabel ==
  \A rev \in MapRevisions :
    \A i \in Located :
      LET j == Cardinality({k \in Located : k <= i})
          stop == tripUpdates.list[i].first_future_stop
      IN j <= Len(markers[rev]) =>
           markers[rev][j].stopLabel =
             IF stop.stop_name # Undef /\ stop.stop_name # <<>>
               THEN stop.stop_name
               ELSE <<"I", "D", " ">> \o stop.stop_id

\* ---------------------------------------------------------------- C34

\* Call i was started under an identity that is not the current one.
Stale(i) == calls[i].pc \in Awaiting /\ calls[i].user # favUser

\* C34: a step of a list-fetch or an add that was started under another
\* identity than the current one (another user, or a user while there is
\* none now) leaves the collection as it is; and the collection is empty
\* whenever there is no session.
C34_StaleResponseIgnored ==
  /\ [][\A i \in CallIds :
          (Stale(i) /\ calls[i].op \in {"list", "add"} /\ calls'[i] # calls[i]) =>
            favorites' = favorites]_vars
  /\ [](favUser = NULL => favorites = <<>>)

\* ---------------------------------------------------------------- C35

\* Request n is dispatched in this step.
StatusDispatched(n) == statusPc[n] = "idle" /\ statusPc'[n] = "fetch"

\* The messages a request can fail with from the await it is at.
FailureMessagesAt(pc) ==
  CASE pc = "fetch" -> {MsgNetwork}
    [] pc = "text" -> {MsgHttp, MsgBody}
    [] pc = "json" -> {MsgParse}

\* C35: the status error slot goes from a message to null only in a step
\* in which a status request succeeds; the dispatch of a request leaves
\* the slot as it is; and a request that fails puts its own message into
\* the slot, whatever was there.
C35_ErrorClearedBySuccessOnly ==
  [][/\ (statusError # NULL /\ statusError' = NULL) => \E n \in ReqIds : StatusSucceeds(n)
     /\ \A n \in ReqIds :
          /\ StatusDispatched(n) => statusError' = statusError
          /\ StatusFails(n) => statusError' \in FailureMessagesAt(statusPc[n])]_vars

\* The first request failed at the network, the second with an unparseable
\* body, whose message replaced the first; the third has been dispatched
\* and the message is still there.
C35_Witness ==
  /\ statusPc[0] = "done" /\ statusPc[1] = "done" /\ statusPc[2] = "fetch"
  /\ statusLast = 1
  /\ statusError = MsgParse
  /\ subwayStatus = NoData

\* ---------------------------------------------------------------- C36

\* C36: the step in which a list-fetch fails (it ends otherwise than
\* through its success branch) leaves the collection exactly as it was,
\* puts a message into the fetch-error slot and sets the loading flag to
\* false.
C36_ListFailure ==
  [][\A i \in CallIds :
       (calls[i].op = "list" /\ CallEnds(i) /\ calls'[i].pc # "ok") =>
         /\ calls'[i].pc = "error"
         /\ favorites' = favorites
         /\ IsMessage(favError')
         /\ favLoading' = FALSE]_vars

\* The first list-fetch filled the collection, the identity changed and
\* the second list-fetch failed: the ids are still there, with the message
\* and without the loading flag.
C36_Witness ==
  /\ calls[1].op = "list" /\ calls[1].pc = "ok"
  /\ calls[2].op = "list" /\ calls[2].pc = "error"
  /\ nCalls = 2
  /\ favorites # <<>>
  /\ IsMessage(favError)
  /\ ~favLoading

\* ---------------------------------------------------------------- C37

\* App and the favorites component are removed and no request is in flight.
TornDownAndQuiet ==
  /\ appPhase = "unmounted"
  /\ ~favMounted
  /\ \A n \in ReqIds : ~StatusInFlight(n)
  /\ accessPc = "done"
  /\ InFlight = {}

====
